---------------------------- MODULE Spec2Model ----------------------------
(* A model of the react-template application shell:                        *)
(*   - src/routes/routes.tsx : the static route table `routers`            *)
(*   - src/App.tsx           : <Routes> built from the table plus the      *)
(*                             catch-all <Navigate to="/" replace />       *)
(*   - README (Zustand)      : createCounterStore, the documented store    *)
(*                             behind the CounterState/CounterActions types*)
(* The browser session history, the router's match and the store's `set`   *)
(* are modelled by what the application observes of them.                  *)
EXTENDS Integers, Sequences, FiniteSets, TLC

VARIABLES
    routers,    \* the module-level array exported by routes.tsx
    history,    \* the browser session history: a sequence of pathnames
    index,      \* position of the current entry in `history`
    pc,         \* "render": a location change awaits render; "effect": the
                \* rendered <Navigate> awaits its effect; "idle": settled
    rendered,   \* the element the <Routes> outlet currently shows
    requested,  \* the pathname the navigation in flight (or last settled) asked for
    redirects,  \* how many times <Navigate> has fired for that navigation
    store,      \* the state object of the counter store
    calls       \* the last store actions called, each with the state it was called on

vars == <<routers, history, index, pc, rendered, requested, redirects, store, calls>>

-----------------------------------------------------------------------------
(* Bounds of the model *)

MaxHistory == 3      \* longest session history explored
CountWindow == 3     \* counts are explored this far around 0 and +-2^53
MaxCalls == 2        \* how many store calls the call log remembers
MaxRedirects == 3    \* `redirects` stops counting here

(* Pathnames a user may type or follow.  "/" is declared, the others not. *)
Paths == {"/", "/does-not-exist", "/about"}

-----------------------------------------------------------------------------
(* JavaScript numbers.  `count: number` is an IEEE-754 double; an integer  *)
(* value v is held as [hi, lo] with v = hi * 2^30 + lo, 0 <= lo < 2^30, so  *)
(* that values around 2^53 can be computed with.                            *)

Base == 2^30
Two53Hi == 2^23      \* 2^53 = Two53Hi * Base

Num(h, l) == [hi |-> h, lo |-> l]

Normalise(n) ==
    IF n.lo >= Base THEN Num(n.hi + 1, n.lo - Base)
    ELSE IF n.lo < 0 THEN Num(n.hi - 1, n.lo + Base)
    ELSE n

(* The exact integer n + d, for a small d. *)
ExactAdd(n, d) == Normalise(Num(n.hi, n.lo + d))

(* |n| > 2^53: from here on doubles are 2 apart (up to 2^54). *)
BeyondTwo53(n) ==
    \/ n.hi > Two53Hi
    \/ n.hi = Two53Hi /\ n.lo > 0
    \/ n.hi < -Two53Hi

(* |n| <= 2^53 - 1, Number.isSafeInteger *)
IsSafeInteger(n) ==
    /\ n.hi < Two53Hi
    /\ \/ n.hi > -Two53Hi
       \/ n.hi = -Two53Hi /\ n.lo > 0

(* Is the integer n a double?  (for |n| < 2^54) *)
IsDouble(n) == BeyondTwo53(n) => n.lo % 2 = 0

(* Round-to-nearest, ties-to-even, of an exact integer result |n| < 2^54:  *)
(* an odd n beyond 2^53 lies halfway between two doubles, and the one with  *)
(* the even significand is the multiple of 4.                               *)
RoundToDouble(n) ==
    IF IsDouble(n) THEN n
    ELSE IF (n.lo + 1) % 4 = 0 THEN ExactAdd(n, 1) ELSE ExactAdd(n, -1)

(* The JavaScript expression  n + d  on numbers. *)
NumberAdd(n, d) == RoundToDouble(ExactAdd(n, d))

Zero == Num(0, 0)
Anchors == {Num(-Two53Hi, 0), Zero, Num(Two53Hi, 0)}

(* The counts the model explores: doubles within CountWindow of an anchor. *)
InWindow(n) == \E a \in Anchors : \E d \in -CountWindow..CountWindow : n = ExactAdd(a, d)
Counts == {n \in {ExactAdd(a, d) : a \in Anchors, d \in -CountWindow..CountWindow} : IsDouble(n)}

-----------------------------------------------------------------------------
(* routes.tsx *)

HomeElement == "Home"            \* <Home />
NavigateElement == "Navigate"    \* <Navigate to="/" replace />
NullElement == "null"            \* what <Routes> renders when nothing matches
Unmounted == "unmounted"         \* before the first render

(* The table with a second entry that repeats the first one's id. *)
routersDuplicateId ==
    << [href |-> "/", id |-> "home", name |-> "Home", element |-> HomeElement],
       [href |-> "/about", id |-> "home", name |-> "About", element |-> "About"] >>

(* The table with a second entry that repeats the first one's href. *)
routersDuplicateHref ==
    << [href |-> "/", id |-> "home", name |-> "Home", element |-> HomeElement],
       [href |-> "/", id |-> "about", name |-> "About", element |-> "About"] >>

routersLiteral ==
    << [href |-> "/", id |-> "home", name |-> "Home", element |-> HomeElement] >>

-----------------------------------------------------------------------------
(* App.tsx *)

NavigateToUndeclared == "/home"    \* a redirect target missing from the table
NavigatePush == FALSE              \* <Navigate> without `replace`

NavigateTo == "/"          \* <Navigate to="/" ...>
NavigateReplace == TRUE    \* <Navigate ... replace />

location == history[index]

Hrefs(rs) == {rs[i].href : i \in 1..Len(rs)}

(* The children without the catch-all route. *)
RouteChildrenNoCatchAll(rs) ==
    [i \in 1..Len(rs) |-> [path |-> rs[i].href, element |-> rs[i].element]]

(* The children of the layout <Route>: one per table entry, then path="*". *)
RouteChildren(rs) ==
    [i \in 1..Len(rs) |-> [path |-> rs[i].href, element |-> rs[i].element]]
        \o << [path |-> "*", element |-> NavigateElement] >>

MatchPath(pattern, pathname) == pattern = "*" \/ pattern = pathname

Min(S) == CHOOSE x \in S : \A y \in S : x <= y

(* A match by declaration order alone, the splat taken first. *)
MatchRoutesSplatFirst(children, pathname) ==
    LET matching == {i \in 1..Len(children) : MatchPath(children[i].path, pathname)}
        splat == {i \in matching : children[i].path = "*"}
    IN  IF matching = {} THEN NullElement
        ELSE IF splat # {} THEN children[Min(splat)].element
        ELSE children[Min(matching)].element

(* The router's choice among the children: a static path outranks the      *)
(* splat, and among equals the first declared wins.                        *)
MatchRoutes(children, pathname) ==
    LET matching == {i \in 1..Len(children) : MatchPath(children[i].path, pathname)}
        static == {i \in matching : children[i].path # "*"}
    IN  IF matching = {} THEN NullElement
        ELSE IF static # {} THEN children[Min(static)].element
        ELSE children[Min(matching)].element

-----------------------------------------------------------------------------
(* The documented counter store *)

Merge(a, b) ==
    [f \in DOMAIN a \cup DOMAIN b |-> IF f \in DOMAIN b THEN b[f] ELSE a[f]]

(* set(partial, true): the partial replaces the state. *)
SetStateReplace(state, partial) == partial

(* zustand's set(partial): the partial is merged into the state. *)
SetState(state, partial) == Merge(state, partial)

createCounterStore(initState) ==
    Merge(initState, [incrementCount |-> "incrementCount",
                      decrementCount |-> "decrementCount"])

decrementCountByTwo(state) == SetState(state, [count |-> NumberAdd(state.count, -2)])

incrementCount(state) == SetState(state, [count |-> NumberAdd(state.count, 1)])
decrementCount(state) == SetState(state, [count |-> NumberAdd(state.count, -1)])

(* Initial states handed to createCounterStore: a CounterState, possibly  *)
(* with a further field. *)
InitStates ==
    {[count |-> c] : c \in Counts} \cup {[count |-> c, label |-> "a"] : c \in Counts}

Logged(op) ==
    LET all == Append(calls, [op |-> op, before |-> store])
    IN  IF Len(all) > MaxCalls THEN Tail(all) ELSE all

-----------------------------------------------------------------------------
Init ==
    /\ routers = routersLiteral
    /\ \E p \in Paths : history = <<p>> /\ requested = p
    /\ index = 1
    /\ pc = "render"
    /\ rendered = Unmounted
    /\ redirects = 0
    /\ \E s \in InitStates : store = createCounterStore(s)
    /\ calls = <<>>

(* A link or an address-bar entry: a new history entry after the current. *)
Navigation(p) ==
    /\ pc = "idle"
    /\ index < MaxHistory
    /\ history' = Append(SubSeq(history, 1, index), p)
    /\ index' = index + 1
    /\ requested' = p
    /\ redirects' = 0
    /\ pc' = "render"
    /\ UNCHANGED <<routers, rendered, store, calls>>

Back ==
    /\ pc = "idle"
    /\ index > 1
    /\ index' = index - 1
    /\ requested' = history[index - 1]
    /\ redirects' = 0
    /\ pc' = "render"
    /\ UNCHANGED <<routers, history, rendered, store, calls>>

Forward ==
    /\ pc = "idle"
    /\ index < Len(history)
    /\ index' = index + 1
    /\ requested' = history[index + 1]
    /\ redirects' = 0
    /\ pc' = "render"
    /\ UNCHANGED <<routers, history, rendered, store, calls>>

(* A render that appends the catch-all route to the table it maps. *)
AppPushingCatchAll ==
    /\ pc = "render"
    /\ routers' = Append(routers, [href |-> "*", id |-> "catch-all", name |-> "Redirect",
                                   element |-> NavigateElement])
    /\ rendered' = MatchRoutes(RouteChildren(routers), location)
    /\ pc' = IF rendered' = NavigateElement THEN "effect" ELSE "idle"
    /\ UNCHANGED <<history, index, requested, redirects, store, calls>>

(* A render that resets the counter. *)
AppResettingCount ==
    /\ pc = "render"
    /\ rendered' = MatchRoutes(RouteChildren(routers), location)
    /\ pc' = IF rendered' = NavigateElement THEN "effect" ELSE "idle"
    /\ store' = SetState(store, [count |-> Zero])
    /\ UNCHANGED <<routers, history, index, requested, redirects, calls>>

(* App(): <Routes> renders the element of the matching child. *)
App ==
    /\ pc = "render"
    /\ rendered' = MatchRoutes(RouteChildren(routers), location)
    /\ pc' = IF rendered' = NavigateElement THEN "effect" ELSE "idle"
    /\ UNCHANGED <<routers, history, index, requested, redirects, store, calls>>

(* The effect of the rendered <Navigate to="/" replace />. *)
Navigate ==
    /\ pc = "effect"
    /\ IF NavigateReplace
         THEN /\ history' = [history EXCEPT ![index] = NavigateTo]
              /\ index' = index
         ELSE /\ index < MaxHistory + 1
              /\ history' = Append(SubSeq(history, 1, index), NavigateTo)
              /\ index' = index + 1
    /\ redirects' = IF redirects < MaxRedirects THEN redirects + 1 ELSE redirects
    /\ pc' = "render"
    /\ UNCHANGED <<routers, rendered, requested, store, calls>>

IncrementCount ==
    /\ InWindow(incrementCount(store).count)
    /\ store' = incrementCount(store)
    /\ calls' = Logged("incrementCount")
    /\ UNCHANGED <<routers, history, index, pc, rendered, requested, redirects>>

DecrementCount ==
    /\ InWindow(decrementCount(store).count)
    /\ store' = decrementCount(store)
    /\ calls' = Logged("decrementCount")
    /\ UNCHANGED <<routers, history, index, pc, rendered, requested, redirects>>

Next ==
    \/ \E p \in Paths : Navigation(p)
    \/ Back
    \/ Forward
    \/ App
    \/ Navigate
    \/ IncrementCount
    \/ DecrementCount

Spec == Init /\ [][Next]_vars

(* React renders after every location change and runs the effect of every *)
(* element it has rendered.                                               *)
FairSpec == Spec /\ WF_vars(App) /\ WF_vars(Navigate)

-----------------------------------------------------------------------------
(* Properties *)

Declared(p) == p \in Hrefs(routers)

(* C1: a navigation to a path that is no href of the table settles on the  *)
(* root view - location "/" and the Home element, the view of a direct     *)
(* navigation to "/" - and <Routes> never renders its no-match result.     *)
C1_UndeclaredRedirectsToRoot ==
    /\ rendered # NullElement
    /\ (pc = "idle" /\ ~Declared(requested)) =>
           (location = "/" /\ rendered = HomeElement)

C1_Witness ==
    pc = "idle" /\ requested = "/does-not-exist" /\ location = "/" /\ redirects = 1

(* C2: a navigation to the href of a table entry renders that entry's      *)
(* element at that location, and <Navigate> is never rendered for it; "/"  *)
(* renders Home.                                                           *)
C2_DeclaredRendersElement ==
    /\ \A i \in 1..Len(routers) :
          (requested = routers[i].href /\ pc # "render") =>
              /\ pc = "idle"
              /\ redirects = 0
              /\ location = requested
              /\ rendered = routers[i].element
    /\ (requested = "/" /\ pc # "render") => rendered = HomeElement

C2_Witness ==
    pc = "idle" /\ requested = "/" /\ index = 2 /\ rendered = HomeElement

(* C3: no two distinct entries of the route table have the same id. *)
C3_IdsUnique ==
    \A i, j \in 1..Len(routers) : i # j => routers[i].id # routers[j].id

C3_Witness ==
    Len(routers) >= 1 /\ routers[1].id = "home" /\ rendered = HomeElement

(* C4 as stated: whatever the count, incrementCount followed by            *)
(* decrementCount leaves the count it started from.                        *)
C4_IncThenDecRestores ==
    LET n == Len(calls) IN
    (n >= 2 /\ calls[n-1].op = "incrementCount" /\ calls[n].op = "decrementCount") =>
        store.count = calls[n-1].before.count

(* C4, amended: from a count that is a safe integer (|count| <= 2^53 - 1), *)
(* incrementCount followed by decrementCount leaves the count it started   *)
(* from.                                                                   *)
C4_IncThenDecRestoresSafe ==
    LET n == Len(calls) IN
    (n >= 2 /\ calls[n-1].op = "incrementCount" /\ calls[n].op = "decrementCount"
            /\ IsSafeInteger(calls[n-1].before.count)) =>
        store.count = calls[n-1].before.count

C4_Witness ==
    /\ Len(calls) >= 2
    /\ calls[Len(calls)-1].op = "incrementCount"
    /\ calls[Len(calls)].op = "decrementCount"
    /\ calls[Len(calls)-1].before.count = Num(Two53Hi - 1, Base - 1)
    /\ store.count = Num(Two53Hi - 1, Base - 1)

(* C5: only incrementCount and decrementCount change the count: every      *)
(* navigation, redirect and render step leaves it as it was.               *)
C5_OnlyActionsChangeCount ==
    [][store'.count # store.count => (IncrementCount \/ DecrementCount)]_vars

C5_Witness ==
    /\ calls # <<>>
    /\ store.count # calls[Len(calls)].before.count
    /\ pc = "idle" /\ redirects = 1 /\ index = 2

(* C6: the route table always holds the entries, in the order, of the      *)
(* literal it was built from.                                              *)
C6_RoutersNeverMutated ==
    routers = << [href |-> "/", id |-> "home", name |-> "Home", element |-> "Home"] >>

C6_Witness ==
    /\ routers = routersLiteral
    /\ pc = "idle" /\ redirects = 1 /\ index = 3

(* C7: no two distinct entries of the route table have the same href, so   *)
(* each declared path belongs to exactly one entry.                        *)
C7_HrefsUnique ==
    /\ \A i, j \in 1..Len(routers) : i # j => routers[i].href # routers[j].href
    /\ \A p \in Hrefs(routers) : Cardinality({i \in 1..Len(routers) : routers[i].href = p}) = 1

C7_Witness ==
    Len(routers) >= 1 /\ routers[1].href = "/" /\ location = "/" /\ rendered = HomeElement

OtherFieldsKept(before, after) ==
    /\ DOMAIN after = DOMAIN before
    /\ \A f \in DOMAIN before \ {"count"} : after[f] = before[f]

(* C8 as stated: incrementCount leaves exactly count + 1, decrementCount   *)
(* exactly count - 1, and every other field of the store is kept.          *)
C8_ExactStep ==
    calls # <<>> =>
        LET c == calls[Len(calls)] IN
        /\ c.op = "incrementCount" => store.count = ExactAdd(c.before.count, 1)
        /\ c.op = "decrementCount" => store.count = ExactAdd(c.before.count, -1)
        /\ OtherFieldsKept(c.before, store)

(* C8, amended: called on a count that is a safe integer, incrementCount   *)
(* leaves exactly count + 1 and decrementCount exactly count - 1 (beyond   *)
(* +-2^53 the sum is rounded to a double); every other field of the store  *)
(* is kept in every case.                                                  *)
C8_ExactStepSafe ==
    calls # <<>> =>
        LET c == calls[Len(calls)] IN
        /\ (c.op = "incrementCount" /\ IsSafeInteger(c.before.count)) =>
               store.count = ExactAdd(c.before.count, 1)
        /\ (c.op = "decrementCount" /\ IsSafeInteger(c.before.count)) =>
               store.count = ExactAdd(c.before.count, -1)
        /\ OtherFieldsKept(c.before, store)

C8_Witness ==
    /\ calls # <<>>
    /\ calls[Len(calls)].op = "incrementCount"
    /\ calls[Len(calls)].before.count = Zero
    /\ store.count = Num(0, 1)
    /\ "label" \in DOMAIN store

(* C9: every navigation settles on a rendered declared route, and          *)
(* <Navigate> fires at most once for it.                                   *)
C9_SettlesAfterAtMostOneRedirect ==
    /\ [](redirects <= 1)
    /\ (pc # "idle") ~> (pc = "idle" /\ Declared(location)
                            /\ \E i \in 1..Len(routers) : rendered = routers[i].element)

C9_Witness ==
    pc = "idle" /\ redirects = 1 /\ Declared(location) /\ ~Declared(requested)
               /\ rendered = HomeElement /\ index = 2

(* C10: the redirect replaces the current history entry: it changes        *)
(* neither the length of the history nor the position in it, and a settled *)
(* history holds no undeclared path for Back or Forward to land on.        *)
C10_RedirectReplaces ==
    /\ [][Navigate => (Len(history') = Len(history) /\ index' = index
                          /\ history'[index] = "/"
                          /\ \A k \in 1..Len(history) : k # index => history'[k] = history[k])]_vars
    /\ [](pc = "idle" => \A k \in 1..Len(history) : Declared(history[k]))
    /\ [][(Back \/ Forward) => Declared(requested')]_vars

C10_Witness ==
    /\ pc = "idle" /\ requested = "/about" /\ redirects = 1
    /\ history = <<"/", "/">> /\ index = 2
=============================================================================
